---- MODULE Spec2Model ----
(***************************************************************************)
(* DynamicFSMDETR (src/models/dynamic_fs_mdetr_resnet.py) and the training *)
(* loop train_one_epoch (src/engine.py).                                   *)
(*                                                                         *)
(* Tensors are symbolic: a token is a tagged tuple and a (len, B, C)       *)
(* tensor is a sequence over the length axis of sequences over the batch.  *)
(* The encoder wraps the token it received at a position, a decode output  *)
(* is named by its text position and stage, and stage_log keeps what each  *)
(* stage read, so that "which value went where" is decidable.              *)
(***************************************************************************)
EXTENDS Integers, Sequences, FiniteSets, TLC

\* ------------------------------------------------------------------ bounds
MaxDim == 2
MaxTemplates == 2
MaxLabel == 2
NumPseudoClasses == 2
MaxBatch == 1
NumVisuToken == 2
MaxQueryLen == 2
NumStages == 2
MaxBatches == 3

\* ------------------------------------------------------------------ state
VARIABLES
    args,               \* constructor arguments
    constructed,        \* "none" | "ok" | "error"
    requires_grad,      \* parameter name -> trainable flag
    has_visual_prompts, \* the attribute self.visual_prompts exists
    visual_prompts,     \* the prompt bank
    template_labels,    \* the labels of the support templates of this run
    gvp_call,           \* the last _get_visual_prompts call and its outcome
    pc,                 \* position of the forward call: "idle" | "stage"
    fw,                 \* the locals of the running forward call
    stage_log,          \* what each executed decoder stage read and wrote
    result,             \* outcome of the last forward call
    data_loader,        \* train_one_epoch: the batches of the epoch
    max_norm,           \* train_one_epoch: clipping enabled
    tpc,                \* train_one_epoch: position in the loop
    batch_idx,          \* train_one_epoch: batch being processed (1-based)
    log                 \* train_one_epoch: operations performed, in order

modelVars == <<args, constructed, requires_grad, has_visual_prompts,
               visual_prompts, template_labels, gvp_call, pc, fw, stage_log, result>>
trainVars == <<data_loader, max_norm, tpc, batch_idx, log>>
vars == <<args, constructed, requires_grad, has_visual_prompts,
          visual_prompts, template_labels, gvp_call, pc, fw, stage_log, result,
          data_loader, max_norm, tpc, batch_idx, log>>

\* ------------------------------------------------------------------ helpers
Range(s) == {s[k] : k \in DOMAIN s}

RECURSIVE Concat(_)
Concat(ss) == IF ss = <<>> THEN <<>> ELSE Head(ss) \o Concat(Tail(ss))

\* s[a:] and s[:b] of Python, on a 1-based sequence
SliceFrom(s, a) == SubSeq(s, a + 1, Len(s))
SliceTo(s, b) == SubSeq(s, 1, IF b <= Len(s) THEN b ELSE Len(s))

\* ------------------------------------------------------------------ parameters
Param(m, i, l) == [module |-> m, index |-> i, leaf |-> l]

\* 'marker' in name
Contains(marker, name) == name.module = marker \/ name.leaf = marker

BaseParameters ==
    {Param(m, 0, "weight") :
        m \in {"visumodel", "visu_proj", "textmodel", "text_proj",
               "vl_pos_embed", "vl_encoder", "vl_transformer", "bbox_embed",
               "init_reference_point", "init_sampling_feature"}}
    \cup {Param("update_sampling_queries", i, "weight") : i \in 0..(NumStages - 1)}

PseudoEmbeddingParameters == {Param("pseudo_embedding", 0, "embeddings")}

KeptTrainable(name) ==
    \/ Contains("pseudo_embedding", name)
    \/ Contains("init_sampling_feature", name)
    \/ Contains("update_sampling_queries", name)

_freeze_model_parameters(rg) ==
    [name \in DOMAIN rg |-> IF ~KeptTrainable(name) THEN FALSE ELSE rg[name]]

\* ------------------------------------------------------------------ __init__
Args ==
    [pseudo_embedding : BOOLEAN,
     hidden_dim : 1..MaxDim,
     vl_hidden_dim : 1..MaxDim,
     pseudo_num_classes : {NumPseudoClasses},
     stages : {NumStages},
     num_visu_token : {NumVisuToken},
     max_query_len : {MaxQueryLen}]

WidthAssertion(a) == a.hidden_dim = a.vl_hidden_dim

EmptyFw ==
    [bs |-> 0, different_transformer |-> FALSE, has_vl_encoder |-> FALSE, visu_mask |-> <<>>, text_mask |-> <<>>,
     vl_src |-> <<>>, vl_mask |-> <<>>, vl_pos |-> <<>>, vl_feat |-> <<>>,
     num_prompts |-> 0, visu_feat |-> <<>>, language_feat |-> <<>>,
     v_pos |-> <<>>, l_pos |-> <<>>,
     i |-> 0, sampling_query |-> <<>>, reference_point |-> <<>>,
     pred_box |-> <<>>]

NoCall == [idx |-> <<>>, outcome |-> "none"]

NoResult == [kind |-> "none", error |-> "", box |-> <<>>]

Construct ==
    /\ constructed = "none"
    /\ IF args.pseudo_embedding /\ ~WidthAssertion(args)
       THEN /\ constructed' = "error"
            /\ UNCHANGED requires_grad
       ELSE /\ constructed' = "ok"
            /\ requires_grad' =
                 IF args.pseudo_embedding
                 THEN _freeze_model_parameters([n \in BaseParameters |-> TRUE])
                 ELSE [n \in BaseParameters |-> TRUE]
    /\ UNCHANGED <<args, has_visual_prompts, visual_prompts, template_labels,
                   gvp_call, pc, fw, stage_log, result, trainVars>>

\* ------------------------------------------------------------------ _get_visual_prompts
RECURSIVE SortSet(_)
SortSet(S) ==
    IF S = {} THEN <<>>
    ELSE LET m == CHOOSE x \in S : \A y \in S : x <= y
         IN <<m>> \o SortSet(S \ {m})

\* torch.unique(template_labels): the distinct labels, ascending
Unique(labels) == SortSet(Range(labels))

\* (template_labels == label).nonzero(): the positions holding label, ascending
LabelIndices(labels, label) ==
    SelectSeq([k \in 1..Len(labels) |-> k], LAMBDA k : labels[k] = label)

\* mutant: the templates in their original order, not grouped by label
OriginalOrder(labels) == [k \in 1..Len(labels) |-> k]

\* the order in which the two nested loops visit the templates
VisitOrder(labels) ==
    LET u == Unique(labels)
    IN Concat([j \in 1..Len(u) |-> LabelIndices(labels, u[j])])

\* random.randint(0, embeddings.size(0) - 1): both ends included
PseudoEmbeddingIdx(a) == 0..(a.pseudo_num_classes - 1)

\* template_feature + pseudo_embedding, for template t and embedding row r; the
\* hidden_dim argument is the width self.hidden_dim of the embedding rows
CombinedFeature(t, labels, r, a) ==
    [template |-> t, label |-> labels[t], row |-> r, width |-> a.hidden_dim]

_get_visual_prompts ==
    /\ constructed = "ok"
    /\ pc = "idle"
    /\ \E idx \in [1..Len(template_labels) -> PseudoEmbeddingIdx(args)] :
         LET order == VisitOrder(template_labels)
         IN /\ requires_grad' =
                 [name \in DOMAIN requires_grad \cup PseudoEmbeddingParameters |->
                    IF name \in PseudoEmbeddingParameters THEN TRUE
                    ELSE requires_grad[name]]
            /\ IF order # <<>>
               THEN /\ visual_prompts' =
                         [j \in 1..Len(order) |->
                            CombinedFeature(order[j], template_labels,
                                            idx[order[j]], args)]
                    /\ has_visual_prompts' = TRUE
                    /\ gvp_call' = [idx |-> idx, outcome |-> "ok"]
               ELSE \* torch.cat of an empty list raises
                    /\ UNCHANGED <<visual_prompts, has_visual_prompts>>
                    /\ gvp_call' = [idx |-> <<>>, outcome |-> "error"]
    /\ result' = NoResult
    /\ stage_log' = <<>>
    /\ fw' = EmptyFw
    /\ UNCHANGED <<args, constructed, template_labels, pc, trainVars>>

\* ------------------------------------------------------------------ forward, lines 73-116
\* a padding mask row: 0 = valid, 1 = padding; the first v entries are valid
MaskRow(len, v) == [k \in 1..len |-> IF k <= v THEN 0 ELSE 1]

\* visu_mask (B, H*W) as the backbone returns it: the code only passes it on
VisuMask(a, bs) == [b \in 1..bs |-> [k \in 1..a.num_visu_token |-> <<"visu_mask", k, b>>]]

\* text_mask rows: no valid token, one valid token, all tokens valid
TextMaskRows(a) == {MaskRow(a.max_query_len, v) : v \in {0, 1, a.max_query_len}}

\* self.visual_prompts.unsqueeze(1).repeat(1, bs, 1): entry j, the same for every item
RepeatPrompts(bank, bs) == [j \in 1..Len(bank) |-> [b \in 1..bs |-> <<"prompt", j, 0>>]]
\* self.visu_proj(visu_src) and self.text_proj(text_src).permute(1, 0, 2)
VisuSrc(a, bs) == [k \in 1..a.num_visu_token |-> [b \in 1..bs |-> <<"visu", k, b>>]]
TextSrc(a, bs) == [k \in 1..a.max_query_len |-> [b \in 1..bs |-> <<"text", k, b>>]]

\* torch.cat([...], dim=0) of (len, B, C) tensors: B and C must agree
CatDim0Ok(bank, a) == \A j \in 1..Len(bank) : bank[j].width = a.vl_hidden_dim
VlSrc(bank, a, bs) == RepeatPrompts(bank, bs) \o VisuSrc(a, bs) \o TextSrc(a, bs)

\* torch.zeros(visual_prompts.size(0), bs): P rows of bs zeros
PromptMask(bank, bs) == [r \in 1..Len(bank) |-> [c \in 1..bs |-> 0]]
\* torch.cat([...], dim=1) of 2-D tensors: the row counts must agree
CatDim1Ok(bank, bs) == Len(bank) = bs
VlMask(bank, bs, visu_mask, text_mask) ==
    [r \in 1..bs |-> PromptMask(bank, bs)[r] \o visu_mask[r] \o text_mask[r]]

\* self.vl_pos_embed.weight.unsqueeze(1).repeat(1, bs, 1)
VlPos(a) == [k \in 1..(a.num_visu_token + a.max_query_len) |-> <<"pos", k>>]

\* self.vl_encoder(vl_src, vl_mask, vl_pos): order- and length-preserving
VlEncoder(has_vl_encoder, vl_src) ==
    IF has_vl_encoder
    THEN [p \in 1..Len(vl_src) |->
            [b \in DOMAIN vl_src[p] |-> <<"enc", vl_src[p][b]>>]]
    ELSE vl_src

\* vl_feat[:self.num_visu_token]
SplitVisu(vl_feat, num_prompts, a) == SliceTo(vl_feat, a.num_visu_token)
\* vl_feat[num_prompts + self.num_visu_token:]
SplitLanguage(vl_feat, num_prompts, a) == SliceFrom(vl_feat, num_prompts + a.num_visu_token)

InitSamplingQuery(bs) == [b \in 1..bs |-> <<"init_sampling_feature">>]
InitReferencePoint(bs) ==
    [b \in 1..bs |-> << <<"init_reference_point", 1>>, <<"init_reference_point", 2>> >>]

Error(e) == [kind |-> "error", error |-> e, box |-> <<>>]

\* mutant: the bank attribute always resolves (an empty bank by default)
BankAlwaysPresent == FALSE

\* line 93: self.visual_prompts raises AttributeError until the attribute is set
BankMissing == ~has_visual_prompts

\* self.different_transformer and self.vl_encoder are attributes of the base
\* class: the call reads them, whatever they are
ForwardCall ==
    /\ constructed = "ok"
    /\ pc = "idle"
    /\ \E bs \in 1..MaxBatch :
         IF BankMissing
         THEN /\ result' = Error("AttributeError")
              /\ fw' = EmptyFw
              /\ UNCHANGED pc
         ELSE IF ~CatDim0Ok(visual_prompts, args)
         THEN /\ result' = Error("RuntimeError: cat dim 0")
              /\ fw' = EmptyFw
              /\ UNCHANGED pc
         ELSE IF ~CatDim1Ok(visual_prompts, bs)
         THEN /\ result' = Error("RuntimeError: cat dim 1")
              /\ fw' = EmptyFw
              /\ UNCHANGED pc
         ELSE \E text_mask \in [1..bs -> TextMaskRows(args)],
                 different_transformer \in BOOLEAN, has_vl_encoder \in BOOLEAN :
              LET visu_mask == VisuMask(args, bs)
                  vl_src == VlSrc(visual_prompts, args, bs)
                  vl_pos == VlPos(args)
                  vl_feat == VlEncoder(has_vl_encoder, vl_src)
                  num_prompts == Len(visual_prompts)
              IN /\ fw' = [bs |-> bs,
                           different_transformer |-> different_transformer,
                           has_vl_encoder |-> has_vl_encoder,
                           visu_mask |-> visu_mask,
                           text_mask |-> text_mask,
                           vl_src |-> vl_src,
                           vl_mask |-> VlMask(visual_prompts, bs, visu_mask, text_mask),
                           vl_pos |-> vl_pos,
                           vl_feat |-> vl_feat,
                           num_prompts |-> num_prompts,
                           visu_feat |-> SplitVisu(vl_feat, num_prompts, args),
                           language_feat |-> SplitLanguage(vl_feat, num_prompts, args),
                           v_pos |-> SliceTo(vl_pos, args.num_visu_token),
                           l_pos |-> SliceFrom(vl_pos, args.num_visu_token),
                           i |-> 0,
                           sampling_query |-> InitSamplingQuery(bs),
                           reference_point |-> InitReferencePoint(bs),
                           pred_box |-> <<>>]
                 /\ pc' = "stage"
                 /\ result' = NoResult
    /\ stage_log' = <<>>
    /\ UNCHANGED <<args, constructed, requires_grad, has_visual_prompts,
                   visual_prompts, template_labels, gvp_call, trainVars>>

\* ------------------------------------------------------------------ forward, lines 118-143
\* column b of a (len, B, C) tensor
Item(t, b) == [k \in 1..Len(t) |-> t[k][b]]

\* what self.feautures_sampling(sampling_query, reference_point, visu_feat, v_pos, i)
\* reads for one batch item
FeaturesSampling(q, r, visu_feat, v_pos, i) ==
    [query |-> q, reference |-> r, feat |-> visu_feat, pos |-> v_pos, stage |-> i]

\* self.vl_transformer[i] or self.vl_transformer
Transformer(different_transformer, i) == IF different_transformer THEN i ELSE -1

\* what the text-guided decode reads beside the sampled features:
\* transformer(sampled_features, None, language_feat, pe, text_mask, l_pos)
DecodeInputs(f, i) ==
    [transformer |-> Transformer(f.different_transformer, i),
     language_feat |-> f.language_feat,
     text_mask |-> f.text_mask,
     l_pos |-> f.l_pos]

\* vg_hs[0]: one output per text position and batch item, named by its stage
VgHs(f, i) ==
    [k \in 1..Len(f.language_feat) |-> [b \in 1..f.bs |-> <<"hs", k, i>>]]

\* text_select = 1 - text_mask ; text_select_num = text_select.sum(dim=1)
TextSelect(mask_row) == [k \in 1..Len(mask_row) |-> 1 - mask_row[k]]
TextSelectNum(mask_row) == Cardinality({k \in 1..Len(mask_row) : TextSelect(mask_row)[k] = 1})

\* (text_select * vg_hs[0].permute(1,0,2)).sum(dim=1) / text_select_num
\* float division: a zero count gives NaN, no exception
Pooled(hs_item, mask_row) ==
    [sum |-> SelectSeq(hs_item, LAMBDA h : TextSelect(mask_row)[h[2]] = 1),
     num |-> TextSelectNum(mask_row),
     nan |-> TextSelectNum(mask_row) = 0]

\* self.bbox_embed(vg_hs).sigmoid(): (center_x, center_y, width, height)
BboxEmbed(pooled) == [c \in 1..4 |-> <<"bbox", c, pooled>>]

\* mutant: pred_box[:, 2:], width and height fed back
WidthHeight(box) == SubSeq(box, 3, 4)

\* pred_box[:, :2]
NextReferencePoint(box) == SubSeq(box, 1, 2)

\* self.update_sampling_queries[i](torch.cat((vg_hs, sampling_query), dim=1))
UpdateSamplingQuery(i, pooled, q) == <<"update_sampling_queries", i, pooled, q>>

\* mutant: line 129 left out, the text stream stays the encoder's
SameLanguageFeat(f, hs) == f.language_feat

\* line 129: the text stream the next stage decodes against
NextLanguageFeat(f, hs) == hs

DecoderStage ==
    /\ pc = "stage"
    /\ fw.i < args.stages
    /\ LET i == fw.i
           hs == VgHs(fw, i)
           pooled == [b \in 1..fw.bs |-> Pooled(Item(hs, b), fw.text_mask[b])]
           pred_box == [b \in 1..fw.bs |-> BboxEmbed(pooled[b])]
       IN /\ fw' = [fw EXCEPT
                      !.language_feat = NextLanguageFeat(fw, hs),
                      !.pred_box = pred_box,
                      !.reference_point =
                          [b \in 1..fw.bs |-> NextReferencePoint(pred_box[b])],
                      !.sampling_query =
                          [b \in 1..fw.bs |->
                             UpdateSamplingQuery(i, pooled[b], fw.sampling_query[b])],
                      !.i = i + 1]
          /\ stage_log' = Append(stage_log,
                 [i |-> i,
                  sampled |-> [b \in 1..fw.bs |->
                      FeaturesSampling(fw.sampling_query[b], fw.reference_point[b],
                                       Item(fw.visu_feat, b), fw.v_pos, i)],
                  decode |-> DecodeInputs(fw, i),
                  vg_hs |-> hs,
                  pooled |-> pooled,
                  pred_box |-> pred_box])
    /\ UNCHANGED <<args, constructed, requires_grad, has_visual_prompts,
                   visual_prompts, template_labels, gvp_call, pc, result, trainVars>>

ForwardReturn ==
    /\ pc = "stage"
    /\ fw.i >= args.stages
    /\ result' = [kind |-> "box", error |-> "", box |-> fw.pred_box]
    /\ pc' = "idle"
    /\ fw' = EmptyFw
    /\ stage_log' = <<>>
    /\ UNCHANGED <<args, constructed, requires_grad, has_visual_prompts,
                   visual_prompts, template_labels, gvp_call, trainVars>>

\* ------------------------------------------------------------------ train_one_epoch
\* the reduced scalar loss of a batch, as loss_value sees it
LossValues == {"finite", "inf", "nan"}

\* mutant: only infinities are taken as non-finite
IsFiniteUnlessInf(loss_value) == loss_value # "inf"

\* math.isfinite(loss_value)
IsFinite(loss_value) == loss_value = "finite"

Did(op) == Append(log, <<op, batch_idx>>)

\* line 37: the loop takes the next batch, or the epoch ends (lines 81-84)
NextBatch ==
    /\ tpc = "loop"
    /\ IF batch_idx < Len(data_loader)
       THEN /\ batch_idx' = batch_idx + 1
            /\ tpc' = "forward"
       ELSE /\ tpc' = "done"
            /\ UNCHANGED batch_idx
    /\ UNCHANGED <<data_loader, max_norm, log, modelVars>>

\* lines 38-63: forward, loss, reduction over the processes
ComputeLoss ==
    /\ tpc = "forward"
    /\ log' = Did("forward")
    /\ tpc' = "check"
    /\ UNCHANGED <<data_loader, max_norm, batch_idx, modelVars>>

\* lines 65-68
CheckLoss ==
    /\ tpc = "check"
    /\ IF ~IsFinite(data_loader[batch_idx])
       THEN tpc' = "exit"
       ELSE tpc' = "backward"
    /\ UNCHANGED <<data_loader, max_norm, batch_idx, log, modelVars>>

\* lines 70-73
Backward ==
    /\ tpc = "backward"
    /\ log' = IF max_norm
              THEN Did("backward") \o << <<"clip_grad_norm_", batch_idx>> >>
              ELSE Did("backward")
    /\ tpc' = "step"
    /\ UNCHANGED <<data_loader, max_norm, batch_idx, modelVars>>

\* lines 74-79
OptimizerStep ==
    /\ tpc = "step"
    /\ log' = Did("step")
    /\ tpc' = "loop"
    /\ UNCHANGED <<data_loader, max_norm, batch_idx, modelVars>>

\* ------------------------------------------------------------------ specifications
ModelIdle ==
    /\ constructed = "none"
    /\ requires_grad = [n \in {} |-> TRUE]
    /\ has_visual_prompts = FALSE
    /\ visual_prompts = <<>>
    /\ gvp_call = NoCall
    /\ pc = "idle"
    /\ fw = EmptyFw
    /\ stage_log = <<>>
    /\ result = NoResult

\* the support sets: up to MaxTemplates templates, each with a label. The code
\* only sorts and compares labels, so the labels of a set are taken dense: the
\* values used are 1..m for some m <= MaxLabel, in any arrangement.
TemplateLabels ==
    UNION {{f \in [1..n -> 1..MaxLabel] :
              \A l \in 1..MaxLabel :
                 (\E k \in 1..n : f[k] = l) =>
                    \A l2 \in 1..l : \E k \in 1..n : f[k] = l2}
           : n \in 0..MaxTemplates}

Init ==
    /\ args \in Args
    /\ template_labels \in TemplateLabels
    /\ ModelIdle
    /\ data_loader = <<>>
    /\ max_norm = FALSE
    /\ tpc = "idle"
    /\ batch_idx = 0
    /\ log = <<>>

Next ==
    \/ Construct
    \/ _get_visual_prompts
    \/ ForwardCall
    \/ DecoderStage
    \/ ForwardReturn

Spec == Init /\ [][Next]_vars

TrainInit ==
    /\ args = CHOOSE a \in Args : TRUE
    /\ template_labels = <<>>
    /\ ModelIdle
    /\ \E n \in 0..MaxBatches : data_loader \in [1..n -> LossValues]
    /\ max_norm \in BOOLEAN
    /\ tpc = "loop"
    /\ batch_idx = 0
    /\ log = <<>>

TrainNext ==
    \/ NextBatch
    \/ ComputeLoss
    \/ CheckLoss
    \/ Backward
    \/ OptimizerStep

TrainSpec == TrainInit /\ [][TrainNext]_vars

\* ------------------------------------------------------------------ properties
Trainable == {name \in DOMAIN requires_grad : requires_grad[name]}

\* a forward call is past line 116
InCall == pc = "stage"

\* C1: the fused sequence is [P prompt, HW visual, L text] tokens; after the
\* encoder the visual stream is exactly the outputs at positions P..P+HW-1 and
\* the text stream exactly the outputs at positions P+HW..P+HW+L-1, so that no
\* output of a prompt position is in either stream.
C1_SplitAtPlacedPositions ==
    InCall =>
      LET P == fw.num_prompts
          HW == args.num_visu_token
          L == args.max_query_len
          text0 == IF stage_log = <<>> THEN fw.language_feat
                   ELSE stage_log[1].decode.language_feat
      IN /\ Len(fw.vl_src) = P + HW + L
         /\ \A p \in 1..(P + HW + L), b \in 1..fw.bs :
              fw.vl_src[p][b][1] = IF p <= P THEN "prompt"
                                   ELSE IF p <= P + HW THEN "visu" ELSE "text"
         /\ fw.visu_feat = SubSeq(fw.vl_feat, P + 1, P + HW)
         /\ text0 = SubSeq(fw.vl_feat, P + HW + 1, P + HW + L)

\* C2: for every batch size B and prompt count P, also P # B, the fusion mask
\* is built and has for each batch item one entry per fused token, in the
\* order [prompt, visual, text], the P prompt entries valid (0).
C2_MaskPerTokenAnyBatch ==
    /\ result.error # "RuntimeError: cat dim 1"
    /\ InCall =>
         \A r \in 1..fw.bs :
           /\ Len(fw.vl_mask[r]) = Len(fw.vl_src)
           /\ fw.vl_mask[r] = [p \in 1..fw.num_prompts |-> 0]
                                \o fw.visu_mask[r] \o fw.text_mask[r]

\* C3: once the model is constructed with the adaptation policy applied, the
\* trainable parameters are exactly the pseudo-embedding table, the initial
\* sampling query and the per-stage query-update projections, in every state.
C3_TrainableSetExact ==
    (constructed = "ok" /\ args.pseudo_embedding) =>
      Trainable = {Param("pseudo_embedding", 0, "embeddings"),
                   Param("init_sampling_feature", 0, "weight")}
                  \cup {Param("update_sampling_queries", i, "weight") :
                          i \in 0..(args.stages - 1)}

\* C4: after a _get_visual_prompts call on a non-empty template set, the bank
\* has one entry per template, every template exactly once, ordered by label
\* and within a label by original position; each entry carries the row drawn
\* for its template, and the row is in 0..num_pseudo_classes-1.
C4_BankOnePerTemplateInGroupOrder ==
    gvp_call.outcome = "ok" =>
      LET n == Len(template_labels)
          bank == visual_prompts
      IN /\ n >= 1
         /\ Len(bank) = n
         /\ \A t \in 1..n : Cardinality({j \in 1..Len(bank) : bank[j].template = t}) = 1
         /\ \A j \in 1..Len(bank) :
              /\ bank[j].template \in 1..n
              /\ bank[j].label = template_labels[bank[j].template]
              /\ bank[j].row = gvp_call.idx[bank[j].template]
              /\ bank[j].row >= 0
              /\ bank[j].row <= args.pseudo_num_classes - 1
         /\ \A j, k \in 1..Len(bank) :
              j < k => \/ bank[j].label < bank[k].label
                       \/ /\ bank[j].label = bank[k].label
                          /\ bank[j].template < bank[k].template

\* a bank of two templates whose label order differs from their original order
C4_Witness ==
    /\ gvp_call.outcome = "ok"
    /\ template_labels = <<2, 1>>
    /\ visual_prompts[1].template = 2
    /\ visual_prompts[1].row # visual_prompts[2].row

\* C5: while no prompt bank has been stored, no forward call runs a stage or
\* returns a box: every such call ends in the attribute error of line 93.
C5_NoBoxBeforeBank ==
    ~has_visual_prompts =>
      /\ pc = "idle"
      /\ result.kind # "box"
      /\ result.kind = "error" => result.error = "AttributeError"

\* a forward call was made on a constructed model without a bank, and failed
C5_Witness ==
    /\ constructed = "ok"
    /\ ~has_visual_prompts
    /\ result.kind = "error"

\* C6: a forward call with a batch item without any valid text token never
\* gets past the masked pooling and returns no box.
C6_AllPaddingRejected ==
    /\ result.kind = "box" =>
         \A b \in 1..Len(result.box) : ~result.box[b][1][3].nan
    /\ \A k \in 1..Len(stage_log) : \A b \in 1..fw.bs :
         /\ ~stage_log[k].pooled[b].nan
         /\ stage_log[k].pooled[b].num =
              Cardinality({p \in 1..Len(fw.text_mask[b]) : fw.text_mask[b][p] = 0})

\* C7: no gradient is computed, no optimizer step taken and no later batch
\* processed at or after the first batch whose reduced loss is non-finite.
C7_AbortBeforeUpdate ==
    /\ \A e \in 1..Len(log) :
         LET op == log[e][1]
             k == log[e][2]
         IN /\ op \in {"backward", "clip_grad_norm_", "step"} =>
                 \A j \in 1..k : data_loader[j] = "finite"
            /\ op = "forward" =>
                 \A j \in 1..(k - 1) : data_loader[j] = "finite"
    /\ tpc \in {"backward", "step"} => data_loader[batch_idx] = "finite"
    /\ tpc = "exit" => data_loader[batch_idx] # "finite"

\* the run was aborted on a NaN loss after an earlier batch had been stepped
C7_Witness ==
    /\ tpc = "exit"
    /\ batch_idx = 2
    /\ data_loader[2] = "nan"
    /\ \E e \in 1..Len(log) : log[e] = <<"step", 1>>

\* C8: no model is constructed with hidden_dim different from vl_hidden_dim.
C8_UnequalWidthsRejected ==
    constructed = "ok" => args.hidden_dim = args.vl_hidden_dim

\* C9: the stages run as i = 0, 1, ..., S-1, each once; stage 0 reads the
\* learned initial query and reference point; stage i+1 reads as reference
\* point (center_x, center_y) of stage i's box and as sampling query the
\* stage-i update projection of (pooled vector, query) of stage i; the box
\* returned is the box of stage S-1.
C9_StageChainInv ==
    /\ \A k \in 1..Len(stage_log) : stage_log[k].i = k - 1
    /\ pc = "stage" => Len(stage_log) = fw.i /\ fw.i <= args.stages
    /\ Len(stage_log) >= 1 =>
         \A b \in 1..fw.bs :
           /\ stage_log[1].sampled[b].query = <<"init_sampling_feature">>
           /\ stage_log[1].sampled[b].reference =
                << <<"init_reference_point", 1>>, <<"init_reference_point", 2>> >>
    /\ \A k \in 1..(Len(stage_log) - 1) : \A b \in 1..fw.bs :
         /\ stage_log[k + 1].sampled[b].reference =
              <<stage_log[k].pred_box[b][1], stage_log[k].pred_box[b][2]>>
         /\ stage_log[k + 1].sampled[b].query =
              <<"update_sampling_queries", k - 1,
                stage_log[k].pooled[b], stage_log[k].sampled[b].query>>
    /\ \A k \in 1..Len(stage_log) : \A b \in 1..fw.bs : \A c \in 1..4 :
         stage_log[k].pred_box[b][c] = <<"bbox", c, stage_log[k].pooled[b]>>

\* the step that returns a box: S stages have run, the box is that of stage S-1
C9_ReturnsLastBox ==
    (result'.kind = "box" /\ pc = "stage") =>
      /\ Len(stage_log) = args.stages
      /\ stage_log[args.stages].i = args.stages - 1
      /\ result'.box = stage_log[args.stages].pred_box

C9_StageChain == []C9_StageChainInv /\ [][C9_ReturnsLastBox]_vars

\* a forward call returned the box of the second stage (stage index 1)
C9_Witness ==
    /\ result.kind = "box"
    /\ args.stages >= 2
    /\ \E b \in 1..Len(result.box) :
         /\ result.box[b][1][3].num >= 1
         /\ result.box[b][1][3].sum[1][3] = args.stages - 1

\* C10 as stated: every stage decodes against the fusion encoder's refined
\* text stream, mask and positions, and samples the same visual stream.
C10_TextStreamNotCarried ==
    \A k \in 1..Len(stage_log) :
      /\ stage_log[k].decode.language_feat = stage_log[1].decode.language_feat
      /\ stage_log[k].decode.text_mask = fw.text_mask
      /\ stage_log[k].decode.l_pos = fw.l_pos
      /\ \A b \in 1..fw.bs : stage_log[k].sampled[b].feat = Item(fw.visu_feat, b)

\* C10 amended: the text stream is carried too: stage 0 decodes against the
\* encoder's refined text stream and stage i+1 against the decode output of
\* stage i; text mask, text positions and visual stream are the same at
\* every stage.
C10_TextStreamCarried ==
    /\ Len(stage_log) >= 1 =>
         stage_log[1].decode.language_feat =
           SubSeq(fw.vl_feat, fw.num_prompts + args.num_visu_token + 1, Len(fw.vl_feat))
    /\ \A k \in 1..(Len(stage_log) - 1) :
         stage_log[k + 1].decode.language_feat = stage_log[k].vg_hs
    /\ \A k \in 1..Len(stage_log) :
         /\ stage_log[k].decode.text_mask = fw.text_mask
         /\ stage_log[k].decode.l_pos =
              SubSeq(fw.vl_pos, args.num_visu_token + 1, Len(fw.vl_pos))
         /\ stage_log[k].sampled = [b \in 1..fw.bs |->
              [stage_log[1].sampled[b] EXCEPT
                 !.query = stage_log[k].sampled[b].query,
                 !.reference = stage_log[k].sampled[b].reference,
                 !.stage = k - 1]]

\* the second stage decoded against the first stage's output
C10_Witness ==
    /\ Len(stage_log) >= 2
    /\ stage_log[2].decode.language_feat = stage_log[1].vg_hs
    /\ stage_log[2].decode.language_feat # stage_log[1].decode.language_feat

====
